---- MODULE Spec2Model ----
(***************************************************************************)
(* METEOR: ROI measurement engines (meteor/core/stats.py,                  *)
(* meteor/core/timeseries.py) and the adapter that dispatches to them      *)
(* (meteor/cli.py).                                                        *)
(*                                                                         *)
(* The engines are pure functions.  Each is an operator, computed the way  *)
(* the code computes it over numpy arrays, and an action that applies it   *)
(* to inputs drawn from bounded sets.  The state is the call in progress   *)
(* (call), its outcome (result) and the caller's position (pc).            *)
(*                                                                         *)
(* Numbers.  A float is modelled as an exact rational <<n, d>> in lowest   *)
(* terms with d > 0; the IEEE specials are <<0, 0>> (NaN), <<1, 0>> (+inf) *)
(* and <<-1, 0>> (-inf).  Arithmetic on them is exact: floating-point      *)
(* rounding is not modelled, so inputs are integer valued, where the       *)
(* sums and differences the code forms are exact in doubles as well.       *)
(*                                                                         *)
(* Arrays.  An ndarray is [shape |-> <<d1, ..., dk>>, data |-> the         *)
(* elements in C (row-major) order], as numpy stores it.                   *)
(***************************************************************************)
EXTENDS Integers, Sequences, FiniteSets, TLC

VARIABLES pc, call, result

vars == <<pc, call, result>>

(***************************************************************************)
(* Bounds of the model.                                                    *)
(***************************************************************************)
\* largest extent of one spatial axis of a generated mask
MaxDim == 2
\* largest number of voxels of a generated mask
MaxVoxels == 4
\* largest voxel spacing component
MaxSpacing == 2
\* largest intensity of a generated image, curve or trace matrix
MaxIntensity == 2
\* largest number of elements of a generated curve or trace matrix
MaxElems == 5
\* largest number of elements (frames x voxels) of a generated 4D image
MaxImgElems == 4
\* largest sampling interval tr, in seconds
MaxTr == 2
\* largest length of a curve given to detect_motion
MaxMotionLen == 7
\* largest z-score threshold given to detect_motion
MaxThreshold == 2
\* largest intensity of an array given to detect_motion
MaxMotionIntensity == 1
\* largest size of a generated intensity sample
MaxSample == 3
\* largest histogram bin count given to compute_entropy
MaxBins == 4

(***************************************************************************)
(* Floats as exact rationals.                                              *)
(***************************************************************************)
Abs(x) == IF x < 0 THEN 0 - x ELSE x

Sign(x) == IF x < 0 THEN 0 - 1 ELSE IF x > 0 THEN 1 ELSE 0

RECURSIVE GCD(_, _)
GCD(a, b) == IF b = 0 THEN a ELSE GCD(b, a % b)

NaN == <<0, 0>>
PosInf == <<1, 0>>
NegInf == <<0 - 1, 0>>

\* the float n/d, for integers n and d (d = 0 gives the IEEE result of n/0.0)
Rat(n, d) ==
    IF d = 0 THEN <<Sign(n), 0>>
    ELSE LET g == GCD(Abs(n), Abs(d))
             s == Sign(d)
         IN  <<(s * n) \div g, (s * d) \div g>>

R(n) == <<n, 1>>

IsNaN(a) == a = NaN
IsFinite(a) == a[2] # 0

RAdd(a, b) ==
    IF IsNaN(a) \/ IsNaN(b) THEN NaN
    ELSE IF ~IsFinite(a) /\ ~IsFinite(b) THEN (IF a = b THEN a ELSE NaN)
    ELSE IF ~IsFinite(a) THEN a
    ELSE IF ~IsFinite(b) THEN b
    ELSE Rat(a[1] * b[2] + b[1] * a[2], a[2] * b[2])

RNeg(a) == <<0 - a[1], a[2]>>

RSub(a, b) == RAdd(a, RNeg(b))

RMul(a, b) ==
    IF IsNaN(a) \/ IsNaN(b) THEN NaN
    ELSE IF ~IsFinite(a) \/ ~IsFinite(b)
         THEN <<Sign(a[1]) * Sign(b[1]), 0>>
    ELSE Rat(a[1] * b[1], a[2] * b[2])

\* numpy float division: x/0 is +-inf, 0/0 is NaN (a warning, no exception)
RDiv(a, b) ==
    IF IsNaN(a) \/ IsNaN(b) THEN NaN
    ELSE IF ~IsFinite(a) /\ ~IsFinite(b) THEN NaN
    ELSE IF ~IsFinite(a) THEN <<Sign(a[1]) * (IF b[1] < 0 THEN 0 - 1 ELSE 1), 0>>
    ELSE IF ~IsFinite(b) THEN R(0)
    ELSE Rat(a[1] * b[2], a[2] * b[1])

\* a < b on floats: false whenever either side is NaN
RLt(a, b) ==
    IF IsNaN(a) \/ IsNaN(b) THEN FALSE
    ELSE IF ~IsFinite(a) THEN a = NegInf /\ b # NegInf
    ELSE IF ~IsFinite(b) THEN b = PosInf
    ELSE a[1] * b[2] < b[1] * a[2]

RGt(a, b) == RLt(b, a)

RAbs(a) == <<Abs(a[1]), a[2]>>

(***************************************************************************)
(* ndarrays.                                                               *)
(***************************************************************************)
RECURSIVE Prod(_)
Prod(s) == IF Len(s) = 0 THEN 1 ELSE Head(s) * Prod(Tail(s))

Size(a) == Prod(a.shape)

\* the 0-based index triple of the k-th (1-based) element of a 3D array of
\* shape s, in C order
Unravel(k, s) ==
    <<((k - 1) \div (s[2] * s[3])),
      ((k - 1) \div s[3]) % s[2],
      (k - 1) % s[3]>>

\* the 1-based position in C order of the 0-based index triple c
Ravel(c, s) == (c[1] * s[2] + c[2]) * s[3] + c[3] + 1

\* ndarray.sum() of a boolean array: the number of true elements
CountTrue(d) == Cardinality({k \in 1..Len(d) : d[k]})

Shapes3 ==
    {s \in (1..MaxDim) \X (1..MaxDim) \X (1..MaxDim) : Prod(s) <= MaxVoxels}

MasksOfShape(s) == {[shape |-> s, data |-> d] : d \in [1..Prod(s) -> BOOLEAN]}

Masks == UNION {MasksOfShape(s) : s \in Shapes3}

\* the mask of tests/test_stats.py test_volume: mask[2:5,3:7,4:9] = True
TestVolumeMask ==
    LET s == <<10, 10, 10>>
    IN  [shape |-> s,
         data |-> [k \in 1..1000 |->
                     LET c == Unravel(k, s)
                     IN  /\ c[1] \in 2..4
                         /\ c[2] \in 3..6
                         /\ c[3] \in 4..8]]

\* a (5,5,5) mask filled on the cube [lo:lo+2]^3, as in test_dice_coefficient
TestCubeMask(lo) ==
    LET s == <<5, 5, 5>>
    IN  [shape |-> s,
         data |-> [k \in 1..125 |->
                     LET c == Unravel(k, s)
                     IN  \A i \in 1..3 : c[i] \in lo..(lo + 1)]]

SpacingVals == {0 - 1} \cup (0..MaxSpacing)

Spacings == SpacingVals \X SpacingVals \X SpacingVals

PositiveSpacing(sp) == \A i \in 1..3 : sp[i] > 0

\* outcomes of a call
Ok(v) == [status |-> "ok", value |-> v]
Raise(e) == [status |-> "raise", value |-> e]

(***************************************************************************)
(* Mask Geometry Engine (meteor/core/stats.py).                            *)
(***************************************************************************)
\* compute_volume with the spacing of axis 1 used for axis 2 as well
compute_volume_axis_slip(roi_mask, spacing) ==
    LET vox_count == CountTrue(roi_mask.data)
        voxel_vol == spacing[1] * spacing[2] * spacing[2]
    IN  Ok(R(vox_count * voxel_vol))

compute_volume(roi_mask, spacing) ==
    LET vox_count == CountTrue(roi_mask.data)
        voxel_vol == spacing[1] * spacing[2] * spacing[3]
    IN  Ok(R(vox_count * voxel_vol))

\* numpy broadcasting of two shapes of equal rank: <<TRUE, shape>> when every
\* axis has equal extents or one of them is 1, <<FALSE, _>> otherwise
BroadcastShape(s1, s2) ==
    LET ok == \A i \in 1..Len(s1) : s1[i] = s2[i] \/ s1[i] = 1 \/ s2[i] = 1
    IN  <<ok, [i \in 1..Len(s1) |-> IF s1[i] = 1 THEN s2[i] ELSE s1[i]]>>

\* the element of a that numpy reads at index c of the broadcast result:
\* an axis of extent 1 is read at index 0
BroadcastAt(a, c) ==
    a.data[Ravel([i \in 1..3 |-> IF a.shape[i] = 1 THEN 0 ELSE c[i]], a.shape)]

\* mask1 & mask2 on boolean arrays
BitAnd(mask1, mask2) ==
    LET b == BroadcastShape(mask1.shape, mask2.shape)
        s == b[2]
    IN  IF ~b[1] THEN Raise("ValueError")
        ELSE Ok([shape |-> s,
                 data |-> [k \in 1..Prod(s) |->
                             /\ BroadcastAt(mask1, Unravel(k, s))
                             /\ BroadcastAt(mask2, Unravel(k, s))]])

\* dice_coefficient without the factor 2.0 (the Jaccard-style slip)
dice_coefficient_no_factor(mask1, mask2) ==
    LET both == BitAnd(mask1, mask2)
    IN  IF both.status = "raise" THEN both
        ELSE LET intersect == CountTrue(both.value.data)
                 denom == CountTrue(mask1.data) + CountTrue(mask2.data)
             IN  IF denom = 0 THEN Ok(R(0))
                 ELSE Ok(Rat(intersect, denom))

dice_coefficient(mask1, mask2) ==
    LET both == BitAnd(mask1, mask2)
    IN  IF both.status = "raise" THEN both
        ELSE LET intersect == CountTrue(both.value.data)
                 size1 == CountTrue(mask1.data)
                 size2 == CountTrue(mask2.data)
                 denom == size1 + size2
             IN  IF denom = 0 THEN Ok(R(0))
                 ELSE Ok(Rat(2 * intersect, denom))

\* np.argwhere: the index triples of the true elements, in C order
\* the k-th smallest element (k = 1, 2, ...) of a finite set of integers
RECURSIVE KthSmallest(_, _)
KthSmallest(S, k) ==
    LET m == CHOOSE x \in S : \A y \in S : x <= y
    IN  IF k = 1 THEN m ELSE KthSmallest(S \ {m}, k - 1)

Argwhere(mask) ==
    LET T == {k \in 1..Size(mask) : mask.data[k]}
    IN  [i \in 1..Cardinality(T) |-> Unravel(KthSmallest(T, i), mask.shape)]

\* coords * np.array(spacing)
Scale(coords, spacing) ==
    [i \in 1..Len(coords) |-> [j \in 1..3 |-> coords[i][j] * spacing[j]]]

\* the square of an entry of cdist(.., .., 'euclidean')
SqDist(p, q) ==
    (p[1] - q[1]) * (p[1] - q[1]) + (p[2] - q[2]) * (p[2] - q[2])
        + (p[3] - q[3]) * (p[3] - q[3])

SetMax(S) == CHOOSE x \in S : \A y \in S : y <= x
SetMin(S) == CHOOSE x \in S : \A y \in S : x <= y

\* dists.min(axis=1).max(), squared: rows are the points of c1
DirectedSq(c1, c2) ==
    SetMax({SetMin({SqDist(c1[i], c2[j]) : j \in 1..Len(c2)}) : i \in 1..Len(c1)})

\* A distance is kept as the rational whose square root it is (sqrt is
\* increasing, so min and max commute with it); float('inf') is the root of
\* +inf.
Sqrt(q) == [sqrt_of |-> q]

\* hausdorff_distance keeping only the directed distance from mask1 to mask2
hausdorff_distance_directed(mask1, mask2, spacing) ==
    LET coords1 == Argwhere(mask1)
        coords2 == Argwhere(mask2)
    IN  IF Len(coords1) = 0 \/ Len(coords2) = 0 THEN Ok(Sqrt(PosInf))
        ELSE Ok(Sqrt(R(DirectedSq(Scale(coords1, spacing),
                                  Scale(coords2, spacing)))))

hausdorff_distance(mask1, mask2, spacing) ==
    LET coords1 == Argwhere(mask1)
        coords2 == Argwhere(mask2)
    IN  IF Len(coords1) = 0 \/ Len(coords2) = 0 THEN Ok(Sqrt(PosInf))
        ELSE LET c1 == Scale(coords1, spacing)
                 c2 == Scale(coords2, spacing)
                 rowmax == DirectedSq(c1, c2)
                 colmax == DirectedSq(c2, c1)
             IN  Ok(Sqrt(R(IF rowmax >= colmax THEN rowmax ELSE colmax)))

\* skimage.measure.marching_cubes(volume, level=0.5, spacing=spacing) on a
\* 0/1 field.  The library rejects an array with an axis shorter than 2 and a
\* level outside [volume.min(), volume.max()] with ValueError; it does not
\* look at the sign of the spacing.  The mesh itself is not computed here: it
\* is kept as the pair it is a function of.
marching_cubes(volume, spacing) ==
    IF \E i \in 1..3 : volume.shape[i] < 2 THEN Raise("ValueError")
    ELSE IF (\A k \in 1..Size(volume) : ~volume.data[k])
            \/ (\A k \in 1..Size(volume) : volume.data[k])
         THEN Raise("ValueError")
    ELSE Ok([mesh_of |-> volume, mesh_spacing |-> spacing])

\* Python's None
None == [none |-> TRUE]
IsNone(v) == "none" \in DOMAIN v

\* have_skimage: whether "from skimage.measure import marching_cubes" succeeds.
\* The sum of the triangle areas is kept as the mesh it is summed over.
compute_surface_area(roi_mask, spacing, have_skimage) ==
    IF ~have_skimage THEN Ok(None)
    ELSE LET mc == marching_cubes(roi_mask, spacing)
         IN  IF mc.status = "raise" THEN mc
             ELSE Ok([area_of |-> mc.value])

(***************************************************************************)
(* Temporal Feature Engine (meteor/core/timeseries.py).                    *)
(*                                                                         *)
(* A float array holds rationals; a 1D array has shape <<T>>, a trace      *)
(* matrix shape <<T, N>> with element (t, j) at position t*N + j + 1.      *)
(***************************************************************************)
RECURSIVE RSum(_)
RSum(xs) == IF Len(xs) = 0 THEN R(0) ELSE RAdd(Head(xs), RSum(Tail(xs)))

\* np.mean of a 1D sequence: the mean of no element is NaN (0/0)
RMean(xs) == RDiv(RSum(xs), R(Len(xs)))

\* the population variance, whose root np.std returns
RVar(xs) ==
    LET m == RMean(xs)
    IN  RMean([i \in 1..Len(xs) |-> RMul(RSub(xs[i], m), RSub(xs[i], m))])

\* np.std
RStd(xs) == Sqrt(RVar(xs))

HasNaN(xs) == \E i \in 1..Len(xs) : IsNaN(xs[i])

\* np.max / np.min of a non-empty sequence: NaN when an element is NaN
RMax(xs) ==
    IF HasNaN(xs) THEN NaN
    ELSE xs[CHOOSE i \in 1..Len(xs) : \A j \in 1..Len(xs) : ~RLt(xs[i], xs[j])]

RMin(xs) ==
    IF HasNaN(xs) THEN NaN
    ELSE xs[CHOOSE i \in 1..Len(xs) : \A j \in 1..Len(xs) : ~RLt(xs[j], xs[i])]

\* np.argmax (0-based): the first NaN if there is one, else the first maximum
ArgMax(xs) ==
    LET P(i) == IF HasNaN(xs) THEN IsNaN(xs[i]) ELSE xs[i] = RMax(xs)
        first == CHOOSE i \in 1..Len(xs) : P(i) /\ \A j \in 1..(i - 1) : ~P(j)
    IN  first - 1

\* np.diff of a 1D sequence
Diff(xs) == [i \in 1..(Len(xs) - 1) |-> RSub(xs[i + 1], xs[i])]

\* row t (0-based) of a trace matrix
Row(a, t) == [j \in 1..a.shape[2] |-> a.data[t * a.shape[2] + j]]

\* np.mean(a, axis=1) and np.std(a, axis=1) of a trace matrix
MeanAxis1(a) == [t \in 1..a.shape[1] |-> RMean(Row(a, t - 1))]
StdAxis1(a) == [t \in 1..a.shape[1] |-> RStd(Row(a, t - 1))]

Array1(xs) == [shape |-> <<Len(xs)>>, data |-> xs]

\* the position in C order of the 0-based index <<t, z, y, x>> of a 4D array
Ravel4(c, s) == ((c[1] * s[2] + c[2]) * s[3] + c[3]) * s[4] + c[4] + 1

\* np.moveaxis(img_4d, -1, 0): (Z, Y, X, T) to (T, Z, Y, X)
MoveLastAxisFirst(img) ==
    LET s == img.shape
        ns == <<s[4], s[1], s[2], s[3]>>
    IN  [shape |-> ns,
         data |-> [k \in 1..Prod(ns) |->
                     LET t == (k - 1) \div (ns[2] * ns[3] * ns[4])
                         v == Unravel(((k - 1) % (ns[2] * ns[3] * ns[4])) + 1,
                                      <<ns[2], ns[3], ns[4]>>)
                     IN  img.data[Ravel4(<<v[1], v[2], v[3], t>>, s)]]]

\* the true positions of a flat boolean sequence, ascending
TrueColumns(flat) ==
    LET T == {k \in 1..Len(flat) : flat[k]}
    IN  [i \in 1..Cardinality(T) |-> KthSmallest(T, i)]

\* extract_timeseries keeping every column, whatever the mask
extract_timeseries_all_columns(img_4d, roi_mask, temporal_axis) ==
    LET img == IF temporal_axis # 0 THEN MoveLastAxisFirst(img_4d) ELSE img_4d
        t_points == img.shape[1]
        ncols == Prod(Tail(img.shape))
        \* img_flat = img_4d.reshape(t_points, -1)
        img_flat == [shape |-> <<t_points, ncols>>, data |-> img.data]
        \* mask_flat = roi_mask.reshape(-1)
        mask_flat == roi_mask.data
    IN  \* img_flat[:, mask_flat]: a boolean index must be as long as the axis
        IF Len(mask_flat) # ncols THEN Raise("IndexError")
        ELSE LET cols == [c \in 1..ncols |-> c]
                 n == Len(cols)
                 roi_timeseries ==
                     [shape |-> <<t_points, n>>,
                      data |-> [k \in 1..(t_points * n) |->
                                  img_flat.data[((k - 1) \div n) * ncols
                                                + cols[((k - 1) % n) + 1]]]]
             IN  Ok([timeseries |-> roi_timeseries,
                     mean_curve |-> Array1(MeanAxis1(roi_timeseries)),
                     std_curve |-> Array1(StdAxis1(roi_timeseries))])

\* temporal_axis is 0 or -1
extract_timeseries(img_4d, roi_mask, temporal_axis) ==
    LET img == IF temporal_axis # 0 THEN MoveLastAxisFirst(img_4d) ELSE img_4d
        t_points == img.shape[1]
        ncols == Prod(Tail(img.shape))
        \* img_flat = img_4d.reshape(t_points, -1)
        img_flat == [shape |-> <<t_points, ncols>>, data |-> img.data]
        \* mask_flat = roi_mask.reshape(-1)
        mask_flat == roi_mask.data
    IN  \* img_flat[:, mask_flat]: a boolean index must be as long as the axis
        IF Len(mask_flat) # ncols THEN Raise("IndexError")
        ELSE LET cols == TrueColumns(mask_flat)
                 n == Len(cols)
                 roi_timeseries ==
                     [shape |-> <<t_points, n>>,
                      data |-> [k \in 1..(t_points * n) |->
                                  img_flat.data[((k - 1) \div n) * ncols
                                                + cols[((k - 1) % n) + 1]]]]
             IN  Ok([timeseries |-> roi_timeseries,
                     mean_curve |-> Array1(MeanAxis1(roi_timeseries)),
                     std_curve |-> Array1(StdAxis1(roi_timeseries))])

\* an optional sampling interval: Python's None or a float
NoTr == [given |-> FALSE, val |-> R(0)]
Tr(x) == [given |-> TRUE, val |-> R(x)]

\* mean / sqrt(var), kept as the pair it is computed from; 0 is 0 / sqrt(1)
OverSqrt(a, v) == [num |-> a, over_sqrt |-> v]
Zero == OverSqrt(R(0), R(1))

\* scipy.signal.welch(curve, fs=fs) and the three fields read off it are not
\* computed: each is kept as the (curve, fs) it is a function of
Welch(curve, fs, field) == [welch_of |-> curve, fs |-> fs, field |-> field]

\* BasicFeatures with the zero-division guard written >= instead of >
BasicFeatures_weak_guard(curve) ==
    [temporal_mean |-> RMean(curve),
     temporal_std |-> RStd(curve),
     temporal_snr |-> IF ~RLt(RVar(curve), R(0))
                      THEN OverSqrt(RMean(curve), RVar(curve))
                      ELSE Zero,
     max_change |-> RSub(RMax(curve), RMin(curve)),
     peak_value |-> RMax(curve),
     time_to_peak |-> ArgMax(curve)]

BasicFeatures(curve) ==
    [temporal_mean |-> RMean(curve),
     temporal_std |-> RStd(curve),
     temporal_snr |-> IF RGt(RVar(curve), R(0))
                      THEN OverSqrt(RMean(curve), RVar(curve))
                      ELSE Zero,
     max_change |-> RSub(RMax(curve), RMin(curve)),
     peak_value |-> RMax(curve),
     time_to_peak |-> ArgMax(curve)]

RateFeatures(curve) ==
    LET d_curve == Diff(curve)
    IN  [mean_rate |-> RMean(d_curve),
         max_rate |-> RMax(d_curve),
         min_rate |-> RMin(d_curve)]

FrequencyFeatures(curve, fs) ==
    [peak_frequency |-> Welch(curve, fs, "peak_frequency"),
     power_0_01Hz |-> Welch(curve, fs, "power_0_01Hz"),
     power_0_1Hz |-> Welch(curve, fs, "power_0_1Hz")]

\* compute_temporal_features with the spectral branch taken from length 4 on
compute_temporal_features_len4(timeseries, tr) ==
    LET curve == IF Len(timeseries.shape) > 1
                 THEN MeanAxis1(timeseries)
                 ELSE timeseries.data
        features == BasicFeatures(curve)
    IN  IF Len(curve) = 0 THEN Raise("ValueError")
        ELSE IF Len(curve) > 1
        THEN LET f2 == RateFeatures(curve) @@ features
             IN  IF tr.given /\ Len(curve) >= 4
                 THEN IF tr.val = R(0) THEN Raise("ZeroDivisionError")
                      ELSE Ok(FrequencyFeatures(curve, RDiv(R(1), tr.val)) @@ f2)
                 ELSE Ok(f2)
        ELSE Ok(features)

compute_temporal_features(timeseries, tr) ==
    LET curve == IF Len(timeseries.shape) > 1
                 THEN MeanAxis1(timeseries)
                 ELSE timeseries.data
        features == BasicFeatures(curve)
    IN  IF Len(curve) = 0 THEN Raise("ValueError")
        ELSE IF Len(curve) > 1
        THEN LET f2 == RateFeatures(curve) @@ features
             IN  IF tr.given /\ Len(curve) > 4
                 THEN \* fs = 1/tr
                      IF tr.val = R(0) THEN Raise("ZeroDivisionError")
                      ELSE Ok(FrequencyFeatures(curve, RDiv(R(1), tr.val)) @@ f2)
                 ELSE Ok(f2)
        ELSE Ok(features)

\* scipy.stats.zscore of a 1D sequence: (x - mean) / std, NaN throughout when
\* the standard deviation is 0 or an element is NaN.  A z-score is kept as
\* the pair (x - mean, variance) of x - mean over sqrt(variance).
ZScore(xs) ==
    LET m == RMean(xs)
        v == RVar(xs)
    IN  [i \in 1..Len(xs) |-> OverSqrt(RSub(xs[i], m), v)]

\* np.abs(z) > threshold for z = a / sqrt(v): false when z is NaN (v is 0 or
\* NaN, or a is NaN)
AbsExceeds(z, threshold) ==
    /\ ~IsNaN(z.num)
    /\ RGt(z.over_sqrt, R(0))
    /\ \/ RLt(threshold, R(0))
       \/ RGt(RMul(z.num, z.num), RMul(RMul(threshold, threshold), z.over_sqrt))

\* WhereList reporting the later frame of each difference (i + 1) instead of
\* the position i in the difference series
WhereList_frame(flags) ==
    LET T == {i \in 1..Len(flags) : flags[i]}
    IN  [k \in 1..Cardinality(T) |-> KthSmallest(T, k)]

\* np.where(cond)[0].tolist(): the 0-based positions where cond holds, ascending
WhereList(flags) ==
    LET T == {i \in 1..Len(flags) : flags[i]}
    IN  [k \in 1..Cardinality(T) |-> KthSmallest(T, k) - 1]

\* the caller's array after detect_motion(timeseries, ..) returns:
\* timeseries[:, np.newaxis] binds a new view to the local name and nothing
\* is written through it
DetectMotionArgAfter(timeseries) == timeseries

detect_motion(timeseries, threshold) ==
    LET ts == IF Len(timeseries.shape) = 1
              THEN [shape |-> <<timeseries.shape[1], 1>>, data |-> timeseries.data]
              ELSE timeseries
        t_points == ts.shape[1]
        n == ts.shape[2]
        \* np.diff(timeseries, axis=0)
        frame_diff ==
            [shape |-> <<t_points - 1, n>>,
             data |-> [k \in 1..((t_points - 1) * n) |->
                         RSub(ts.data[k + n], ts.data[k])]]
        mean_diff == MeanAxis1(frame_diff)
        z_scores == ZScore(mean_diff)
    IN  Ok(WhereList([i \in 1..Len(z_scores) |-> AbsExceeds(z_scores[i], threshold)]))

(***************************************************************************)
(* Intensity Statistics Engine (meteor/core/stats.py).                     *)
(*                                                                         *)
(* A sample is a 1D float array, given here as its sequence of rationals.  *)
(***************************************************************************)
\* xs without its i-th element
RemoveAt(xs, i) == SubSeq(xs, 1, i - 1) \o SubSeq(xs, i + 1, Len(xs))

\* np.sort of a sequence of finite floats
RECURSIVE Sorted(_)
Sorted(xs) ==
    IF Len(xs) = 0 THEN <<>>
    ELSE LET i == CHOOSE i \in 1..Len(xs) : \A j \in 1..Len(xs) : ~RLt(xs[j], xs[i])
         IN  <<xs[i]>> \o Sorted(RemoveAt(xs, i))

\* floor of a non-negative finite rational
Floor(a) == a[1] \div a[2]

\* np.percentile(data, q) with the default linear interpolation, q = 100*qn/qd
Percentile(xs, qn, qd) ==
    LET srt == Sorted(xs)
        pos == Rat((Len(xs) - 1) * qn, qd)
        lo == Floor(pos)
        frac == RSub(pos, R(lo))
    IN  IF lo + 1 >= Len(xs) THEN srt[lo + 1]
        ELSE RAdd(srt[lo + 1], RMul(frac, RSub(srt[lo + 2], srt[lo + 1])))

\* np.median
\* Median adding the two middle order statistics of an even-length sample
\* without halving the sum
Median_no_halving(xs) ==
    LET srt == Sorted(xs)
        n == Len(xs)
    IN  IF n % 2 = 1 THEN srt[(n + 1) \div 2]
        ELSE RAdd(srt[n \div 2], srt[(n \div 2) + 1])

Median(xs) ==
    LET srt == Sorted(xs)
        n == Len(xs)
    IN  IF n % 2 = 1 THEN srt[(n + 1) \div 2]
        ELSE RDiv(RAdd(srt[n \div 2], srt[(n \div 2) + 1]), R(2))

\* compute_basic_stats without the data.size == 0 branch: data.min() of an
\* empty array raises ValueError
compute_basic_stats_no_guard(data) ==
    IF Len(data) = 0 THEN Raise("ValueError")
    ELSE Ok([min |-> RMin(data), max |-> RMax(data), mean |-> RMean(data),
             median |-> Median(data), std |-> RStd(data)])

compute_basic_stats(data) ==
    IF Len(data) = 0
    THEN Ok([min |-> NaN, max |-> NaN, mean |-> NaN, median |-> NaN,
             std |-> Sqrt(NaN)])
    ELSE Ok([min |-> RMin(data), max |-> RMax(data), mean |-> RMean(data),
             median |-> Median(data), std |-> RStd(data)])

\* the k-th central moment
Moment(xs, k) ==
    LET m == RMean(xs)
        pow(x) == IF k = 2 THEN RMul(x, x)
                  ELSE IF k = 3 THEN RMul(x, RMul(x, x))
                  ELSE RMul(RMul(x, x), RMul(x, x))
    IN  RMean([i \in 1..Len(xs) |-> pow(RSub(xs[i], m))])

\* scipy.stats.skew is m3 / m2^1.5 and scipy.stats.kurtosis m4 / m2^2 - 3
\* (biased, Fisher); each is kept as the moments it is computed from
Skew(xs) == [m3 |-> Moment(xs, 3), m2 |-> Moment(xs, 2)]
Kurtosis(xs) == [m4 |-> Moment(xs, 4), m2 |-> Moment(xs, 2)]
NaNSkew == [m3 |-> NaN, m2 |-> NaN]
NaNKurtosis == [m4 |-> NaN, m2 |-> NaN]

compute_additional_stats(data) ==
    IF Len(data) = 0
    THEN Ok([skew |-> NaNSkew, kurtosis |-> NaNKurtosis, p25 |-> NaN, p75 |-> NaN])
    ELSE Ok([skew |-> Skew(data), kurtosis |-> Kurtosis(data),
             p25 |-> Percentile(data, 1, 4), p75 |-> Percentile(data, 3, 4)])

\* np.histogram(data, bins=nbins, density=True)[0] of a non-empty sample: the
\* range is (min, max), widened by 0.5 on each side when min = max; nbins
\* bins of equal width, the last one closed; count / (size * width)
Histogram(data, nbins) ==
    LET mn == RMin(data)
        mx == RMax(data)
        first_edge == IF mn = mx THEN RSub(mn, Rat(1, 2)) ELSE mn
        last_edge == IF mn = mx THEN RAdd(mx, Rat(1, 2)) ELSE mx
        span == RSub(last_edge, first_edge)
        width == RDiv(span, R(nbins))
        BinOf(x) == IF x = last_edge THEN nbins - 1
                    ELSE Floor(RMul(RDiv(RSub(x, first_edge), span), R(nbins)))
        bin_of == [i \in 1..Len(data) |-> BinOf(data[i])]
        count(b) == Cardinality({i \in 1..Len(data) : bin_of[i] = b})
        occupied == {bin_of[i] : i \in 1..Len(data)}
        norm == RMul(R(Len(data)), width)
    IN  [b \in 1..nbins |-> IF (b - 1) \in occupied
                            THEN RDiv(R(count(b - 1)), norm)
                            ELSE R(0)]

\* hist[hist > 0]
Positive(hist) ==
    LET T == {b \in 1..Len(hist) : RGt(hist[b], R(0))}
    IN  [i \in 1..Cardinality(T) |-> hist[KthSmallest(T, i)]]

\* float(-np.sum(hist * np.log2(hist))), kept as the densities it is summed
\* over; np.nan is the entropy of the one "density" NaN
EntropyOf(hist) == [neg_sum_plog2p |-> hist]
NaNEntropy == EntropyOf(<<NaN>>)

compute_entropy(data, nbins) ==
    IF Len(data) = 0 THEN Ok(NaNEntropy)
    ELSE Ok(EntropyOf(Positive(Histogram(data, nbins))))

RECURSIVE Pow(_, _)
Pow(b, e) == IF e = 0 THEN 1 ELSE b * Pow(b, e - 1)

RECURSIVE LCMOfDens(_)
LCMOfDens(hist) ==
    IF Len(hist) = 0 THEN 1
    ELSE LET l == LCMOfDens(Tail(hist))
             q == Head(hist)[2]
         IN  (l * q) \div GCD(l, q)

RECURSIVE GCDOfSeq(_)
GCDOfSeq(ws) == IF Len(ws) = 0 THEN 0 ELSE GCD(Head(ws), GCDOfSeq(Tail(ws)))

RECURSIVE ProdPow(_, _, _)
ProdPow(hist, ws, k) ==
    IF Len(hist) = 0 THEN 1
    ELSE Pow(Head(hist)[k], Head(ws)) * ProdPow(Tail(hist), Tail(ws), k)

\* The sign (-1, 0, 1) of -sum(d * log2(d)) over positive rational densities
\* d = p/q.  With integer weights w proportional to d, sum(w * log2(p/q)) is
\* log2 of prod(p^w) / prod(q^w), so the sum is negative exactly when
\* prod(p^w) < prod(q^w).
EntropySign(e) ==
    LET hist == e.neg_sum_plog2p
        L == LCMOfDens(hist)
        w0 == [i \in 1..Len(hist) |-> (hist[i][1] * L) \div hist[i][2]]
        g == GCDOfSeq(w0)
        ws == [i \in 1..Len(hist) |-> w0[i] \div g]
    IN  Sign(ProdPow(hist, ws, 2) - ProdPow(hist, ws, 1))

(***************************************************************************)
(* Calls.                                                                  *)
(***************************************************************************)
NoCall == [op |-> "none"]
NoResult == [status |-> "none", value |-> "none"]

Init ==
    /\ pc = "idle"
    /\ call = NoCall
    /\ result = NoResult

Return ==
    /\ pc = "done"
    /\ pc' = "idle"
    /\ call' = NoCall
    /\ result' = NoResult

CallComputeVolume ==
    /\ pc = "idle"
    /\ \E m \in Masks \cup {TestVolumeMask}, sp \in Spacings :
         /\ call' = [op |-> "compute_volume", roi_mask |-> m, spacing |-> sp]
         /\ result' = compute_volume(m, sp)
    /\ pc' = "done"

CallDice ==
    /\ pc = "idle"
    /\ \E m1 \in Masks, m2 \in Masks :
         /\ call' = [op |-> "dice_coefficient", mask1 |-> m1, mask2 |-> m2]
         /\ result' = dice_coefficient(m1, m2)
    /\ pc' = "done"

CallDiceTest ==
    /\ pc = "idle"
    /\ \E lo1 \in 1..2, lo2 \in 1..2 :
         /\ call' = [op |-> "dice_coefficient",
                     mask1 |-> TestCubeMask(lo1), mask2 |-> TestCubeMask(lo2)]
         /\ result' = dice_coefficient(TestCubeMask(lo1), TestCubeMask(lo2))
    /\ pc' = "done"

CallHausdorff ==
    /\ pc = "idle"
    /\ \E m1 \in Masks, m2 \in Masks, sp \in Spacings :
         /\ call' = [op |-> "hausdorff_distance",
                     mask1 |-> m1, mask2 |-> m2, spacing |-> sp]
         /\ result' = hausdorff_distance(m1, m2, sp)
    /\ pc' = "done"

CallSurfaceArea ==
    /\ pc = "idle"
    /\ \E m \in Masks \cup MasksOfShape(<<2, 2, 2>>), sp \in Spacings,
          lib \in BOOLEAN :
         /\ call' = [op |-> "compute_surface_area", roi_mask |-> m,
                     spacing |-> sp, have_skimage |-> lib]
         /\ result' = compute_surface_area(m, sp, lib)
    /\ pc' = "done"

\* sequences of length n over S
SeqsOfLen(S, n) == [1..n -> S]

Intensities == {R(v) : v \in 0..MaxIntensity}

\* the shapes (T, N) of trace matrices: T >= 1, N >= 0, at most MaxElems
\* elements
MatrixShapes ==
    {q \in (1..MaxElems) \X (0..MaxElems) : q[1] * q[2] <= MaxElems}

\* the shapes of the arrays given to compute_temporal_features and
\* detect_motion: 1D curves of 1..maxlen time points and trace matrices
SeriesShapes(maxlen) == {<<n>> : n \in 1..maxlen} \cup MatrixShapes

TrVals == {NoTr} \cup {Tr(x) : x \in 0..MaxTr}

Thresholds == {R(k) : k \in 0..MaxThreshold}

\* 4D images: time first for temporal_axis 0, time last for temporal_axis -1
ImgShapes(axis) ==
    {IF axis = 0 THEN <<t>> \o s ELSE s \o <<t>> :
        <<t, s>> \in {q \in (1..MaxImgElems) \X Shapes3 :
                        q[1] * Prod(q[2]) <= MaxImgElems}}

CallExtractTimeseries ==
    /\ pc = "idle"
    /\ \E axis \in {0, 0 - 1} :
         \E s \in ImgShapes(axis), m \in Masks :
            \E d \in SeqsOfLen(Intensities, Prod(s)) :
               LET img == [shape |-> s, data |-> d]
               IN  /\ call' = [op |-> "extract_timeseries", img_4d |-> img,
                               roi_mask |-> m, temporal_axis |-> axis]
                   /\ result' = extract_timeseries(img, m, axis)
    /\ pc' = "done"

CallTemporalFeatures ==
    /\ pc = "idle"
    /\ \E s \in SeriesShapes(MaxElems), tr \in TrVals :
         \E d \in SeqsOfLen(Intensities, Prod(s)) :
            LET ts == [shape |-> s, data |-> d]
            IN  /\ call' = [op |-> "compute_temporal_features",
                            timeseries |-> ts, tr |-> tr]
                /\ result' = compute_temporal_features(ts, tr)
    /\ pc' = "done"

CallDetectMotion ==
    /\ pc = "idle"
    /\ \E s \in SeriesShapes(MaxMotionLen), th \in Thresholds :
         \E d \in SeqsOfLen({R(v) : v \in 0..MaxMotionIntensity}, Prod(s)) :
            LET ts == [shape |-> s, data |-> d]
            IN  /\ call' = [op |-> "detect_motion", timeseries |-> ts,
                            threshold |-> th,
                            arg_after |-> DetectMotionArgAfter(ts)]
                /\ result' = detect_motion(ts, th)
    /\ pc' = "done"

\* the sample of tests/test_stats.py test_compute_basic_stats
TestSample == <<R(1), R(2), R(3), R(4), R(5)>>

CallBasicStats ==
    /\ pc = "idle"
    /\ \E n \in 0..(MaxSample + 1) :
         \E data \in IF n > MaxSample THEN {TestSample}
                      ELSE SeqsOfLen(Intensities, n) :
            /\ call' = [op |-> "compute_basic_stats", data |-> data]
            /\ result' = compute_basic_stats(data)
    /\ pc' = "done"

CallAdditionalStats ==
    /\ pc = "idle"
    /\ \E n \in 0..(MaxSample + 1) :
         \E data \in IF n > MaxSample THEN {TestSample}
                      ELSE SeqsOfLen(Intensities, n) :
            /\ call' = [op |-> "compute_additional_stats", data |-> data]
            /\ result' = compute_additional_stats(data)
    /\ pc' = "done"

CallEntropy ==
    /\ pc = "idle"
    /\ \E n \in 0..MaxSample, nbins \in 2..MaxBins :
         \E data \in SeqsOfLen(Intensities, n) :
            /\ call' = [op |-> "compute_entropy", data |-> data, nbins |-> nbins]
            /\ result' = compute_entropy(data, nbins)
    /\ pc' = "done"

NextStats ==
    \/ CallBasicStats
    \/ CallAdditionalStats
    \/ CallEntropy
    \/ Return

SpecStats == Init /\ [][NextStats]_vars

NextFeatures ==
    \/ CallTemporalFeatures
    \/ Return

SpecFeatures == Init /\ [][NextFeatures]_vars

NextMotion ==
    \/ CallDetectMotion
    \/ Return

SpecMotion == Init /\ [][NextMotion]_vars

\* the operations that pair a mask with an array or with another mask
NextShape ==
    \/ CallExtractTimeseries
    \/ CallDice
    \/ CallHausdorff
    \/ Return

SpecShape == Init /\ [][NextShape]_vars

NextGeometry ==
    \/ CallComputeVolume
    \/ CallSurfaceArea
    \/ CallDice
    \/ CallDiceTest
    \/ CallHausdorff
    \/ Return

SpecGeometry == Init /\ [][NextGeometry]_vars

(***************************************************************************)
(* Case adapter (meteor/cli.py, meteor/utils.py, meteor/io/image.py).      *)
(*                                                                         *)
(* The files of a case are given as what loading them yields: the main     *)
(* array (3D, or 4D with time first), the image spacing in (x, y, z)       *)
(* order, and for each ROI its file name and its label array after         *)
(* resample_to_reference, which has the spatial shape of the main image.   *)
(* quick_plot and visualize_with_napari only draw and are left out.        *)
(***************************************************************************)
\* nbins of compute_entropy when the caller gives none
DefaultNbins == 64
\* threshold of detect_motion when the caller gives none
DefaultThreshold == 2

\* validate_inputs: raises FileNotFoundError for a missing path and
\* ValueError for an unsupported extension; path_error is which, or "none"
validate_inputs(path_error) ==
    IF path_error = "none" THEN Ok(None) ELSE Raise(path_error)

\* (sp[2], sp[1], sp[0]): from (x, y, z) to (z, y, x)
get_spacing_for_numpy(sp) == <<sp[3], sp[2], sp[1]>>

\* bin_mask = roi_arr > 0
BinMask(roi_arr) ==
    [shape |-> roi_arr.shape,
     data |-> [k \in 1..Len(roi_arr.data) |-> roi_arr.data[k] > 0]]

\* main_arr[0] of a 4D array
Frame0(main_arr) ==
    [shape |-> Tail(main_arr.shape),
     data |-> SubSeq(main_arr.data, 1, Prod(Tail(main_arr.shape)))]

\* arr[bin_mask] for a mask of the array's shape: the elements under the true
\* voxels, in C order
BoolIndex(arr, bin_mask) ==
    LET cols == TrueColumns(bin_mask.data)
    IN  [i \in 1..Len(cols) |-> arr.data[cols[i]]]

\* StaticStats storing surface_area_mm2 whatever compute_surface_area returned
StaticStats_always_key(main_arr, bin_mask, img_spacing, have_skimage) ==
    LET voxels == IF Len(main_arr.shape) = 3
                  THEN BoolIndex(main_arr, bin_mask)
                  ELSE BoolIndex(Frame0(main_arr), bin_mask)
        spacing == get_spacing_for_numpy(img_spacing)
        surface_area == compute_surface_area(bin_mask, spacing, have_skimage)
    IN  IF surface_area.status = "raise" THEN surface_area
        ELSE Ok([stats |->
                   [surface_area_mm2 |-> surface_area.value,
                    volume_mm3 |-> compute_volume(bin_mask, spacing).value,
                    entropy |-> compute_entropy(voxels, DefaultNbins).value]
                   @@ compute_additional_stats(voxels).value
                   @@ compute_basic_stats(voxels).value])

\* the else branch of the ROI loop: the statistics record of one ROI
StaticStats(main_arr, bin_mask, img_spacing, have_skimage) ==
    LET voxels == IF Len(main_arr.shape) = 3
                  THEN BoolIndex(main_arr, bin_mask)
                  ELSE BoolIndex(Frame0(main_arr), bin_mask)
        basic == compute_basic_stats(voxels)
        \* stats.update(compute_additional_stats(voxels))
        stats2 == compute_additional_stats(voxels).value @@ basic.value
        stats3 == [entropy |-> compute_entropy(voxels, DefaultNbins).value] @@ stats2
        spacing == get_spacing_for_numpy(img_spacing)
        stats4 == [volume_mm3 |-> compute_volume(bin_mask, spacing).value] @@ stats3
        surface_area == compute_surface_area(bin_mask, spacing, have_skimage)
    IN  IF surface_area.status = "raise" THEN surface_area
        ELSE IF IsNone(surface_area.value) THEN Ok([stats |-> stats4])
        ELSE Ok([stats |-> [surface_area_mm2 |-> surface_area.value] @@ stats4])

\* the temporal branch of the ROI loop; motion_frames is the list the branch
\* binds when motion_check is set (it is logged, not stored)
TemporalStats(main_arr, bin_mask, tr, motion_check) ==
    LET ts_data == extract_timeseries(main_arr, bin_mask, 0)
    IN  IF ts_data.status = "raise" THEN ts_data
        ELSE
        LET temp_features == compute_temporal_features(ts_data.value.timeseries, tr)
            motion == detect_motion(ts_data.value.timeseries, R(DefaultThreshold))
            stats == [temporal_features |-> temp_features.value,
                      mean_curve |-> ts_data.value.mean_curve.data,
                      std_curve |-> ts_data.value.std_curve.data]
        IN  IF temp_features.status = "raise" THEN temp_features
            ELSE IF motion_check
            THEN Ok([stats |-> stats, motion_frames |-> motion.value])
            ELSE Ok([stats |-> stats])

\* one pass of "for roi_p in roi_paths"
RoiBody(files, roi, temporal, tr, motion_check) ==
    LET bin_mask == BinMask(roi.roi_arr)
    IN  IF temporal /\ Len(files.main_arr.shape) = 4
        THEN TemporalStats(files.main_arr, bin_mask, tr, motion_check)
        ELSE StaticStats(files.main_arr, bin_mask, files.spacing,
                         files.have_skimage)

\* "for roi_p in roi_paths" over the outcomes pass[i] of its passes: the
\* passes run in order and the first exception leaves the loop and is
\* re-raised.  Otherwise all_stats maps os.path.basename of each ROI path to
\* the record of the ROI, a later ROI of the same name replacing an earlier
\* one, and motion_log lists the motion_frames the passes bound, in order.
RoiLoop(rois, pass) ==
    LET n == Len(rois)
        raising == {i \in 1..n : pass[i].status = "raise"}
        names == {rois[i].name : i \in 1..n}
        last(name) == SetMax({i \in 1..n : rois[i].name = name})
        logged == {i \in 1..n : "motion_frames" \in DOMAIN pass[i].value}
    IN  IF raising # {} THEN pass[SetMin(raising)]
        ELSE [status |-> "ok",
              value |-> [name \in names |-> pass[last(name)].value.stats],
              motion_log |-> [k \in 1..Cardinality(logged) |->
                                pass[KthSmallest(logged, k)].value.motion_frames]]

process_single_case(files, temporal, tr, motion_check) ==
    LET v == validate_inputs(files.path_error)
    IN  IF v.status = "raise" THEN v
        ELSE \* each pass is evaluated once
             CHOOSE out \in
                 {RoiLoop(files.rois, pass) :
                    pass \in {[i \in 1..Len(files.rois) |->
                                RoiBody(files, files.rois[i], temporal, tr,
                                        motion_check)]}} : TRUE

\* largest number of ROIs of a case
MaxRois == 2

\* the spatial shapes of the cases: a single row of two voxels and the
\* smallest volume marching_cubes accepts
CaseShapes == {<<1, 1, 2>>, <<2, 2, 2>>}

\* label arrays: no voxel, every voxel, the first voxel
RoiArrays(s) ==
    {[shape |-> s, data |-> d] :
        d \in {[k \in 1..Prod(s) |-> 0], [k \in 1..Prod(s) |-> 1],
               [k \in 1..Prod(s) |-> IF k = 1 THEN 1 ELSE 0]}}

RoiNames(n) ==
    IF n = 0 THEN {<<>>}
    ELSE {[k \in 1..n |-> "roi_a.nii"],
          [k \in 1..n |-> IF k = 1 THEN "roi_a.nii" ELSE "roi_b.nii"]}

RoiLists(s) ==
    UNION {{[k \in 1..n |-> [name |-> names[k], roi_arr |-> arrs[k]]] :
              names \in RoiNames(n), arrs \in [1..n -> RoiArrays(s)]} :
           n \in 0..MaxRois}

\* one frame: a constant image or a ramp over the voxels
Frames(s) ==
    {[k \in 1..Prod(s) |-> MaxIntensity],
     [k \in 1..Prod(s) |-> (k - 1) % (MaxIntensity + 1)]}

\* main arrays: a 3D frame, or t frames each brighter by step than the last
MainArrays(s) ==
    {[shape |-> s, data |-> [k \in 1..Prod(s) |-> R(f[k])]] : f \in Frames(s)}
    \cup {[shape |-> <<t>> \o s,
           data |-> [k \in 1..(t * Prod(s)) |->
                       R(f[((k - 1) % Prod(s)) + 1]
                         + step * ((k - 1) \div Prod(s)))]] :
            f \in Frames(s), t \in {1, MaxElems}, step \in {0, 1}}

\* image spacings (x, y, z): isotropic, and stretched along x
ImageSpacings == {<<1, 1, 1>>, <<MaxSpacing, 1, 1>>}

\* the sampling interval of a case: none, zero, or the largest
CaseTrVals == {NoTr, Tr(0), Tr(MaxTr)}

PathErrors == {"none", "FileNotFoundError", "ValueError"}

\* a case whose paths do not validate
NoFiles(err) ==
    [path_error |-> err,
     main_arr |-> [shape |-> <<1, 1, 2>>, data |-> <<R(0), R(0)>>],
     spacing |-> <<1, 1, 1>>, rois |-> <<>>, have_skimage |-> FALSE]

\* a sampling interval and motion_check are given only with temporal on a 4D
\* image
CallProcessSingleCase ==
    /\ pc = "idle"
    /\ \/ \E err \in PathErrors \ {"none"} :
            /\ call' = [op |-> "process_single_case", files |-> NoFiles(err),
                        temporal |-> FALSE, tr |-> NoTr,
                        motion_check |-> FALSE]
            /\ result' = process_single_case(NoFiles(err), FALSE, NoTr, FALSE)
       \/ \E s \in CaseShapes, temporal \in BOOLEAN, lib \in BOOLEAN :
            \E main_arr \in MainArrays(s), rois \in RoiLists(s),
               sp \in ImageSpacings :
               \E tr \in IF temporal /\ Len(main_arr.shape) = 4
                          THEN CaseTrVals ELSE {NoTr},
                  motion_check \in IF temporal /\ Len(main_arr.shape) = 4
                                   THEN BOOLEAN ELSE {FALSE} :
                  LET files == [path_error |-> "none", main_arr |-> main_arr,
                                spacing |-> sp, rois |-> rois,
                                have_skimage |-> lib]
                  IN  /\ call' = [op |-> "process_single_case",
                                  files |-> files, temporal |-> temporal,
                                  tr |-> tr, motion_check |-> motion_check]
                      /\ result' = process_single_case(files, temporal, tr,
                                                       motion_check)
    /\ pc' = "done"

NextCase ==
    \/ CallProcessSingleCase
    \/ Return

SpecCase == Init /\ [][NextCase]_vars

(***************************************************************************)
(* Batch adapter (meteor/cli.py process_batch).                            *)
(*                                                                         *)
(* While a batch runs, call holds its frame: the cases of the              *)
(* configuration, whether output_folder is set, the index i of the next    *)
(* case, the results list, the numbers of the cases announced in the log   *)
(* and the numbers of the cases whose CSV was written.                     *)
(***************************************************************************)
\* largest number of cases of a configuration
MaxCases == 2

\* one entry of config["cases"]; has_main is whether it has the key "main"
Case(has_main, files, temporal, tr, motion_check) ==
    [has_main |-> has_main, files |-> files, temporal |-> temporal,
     tr |-> tr, motion_check |-> motion_check]

\* the files of a 2x2x2 ramp image, 4D with MaxElems frames when temporal
BatchFiles(temporal, roi_data) ==
    LET s == <<2, 2, 2>>
        frame == [k \in 1..Prod(s) |-> R((k - 1) % (MaxIntensity + 1))]
    IN  [path_error |-> "none",
         main_arr |-> IF temporal
                      THEN [shape |-> <<MaxElems>> \o s,
                            data |-> [k \in 1..(MaxElems * Prod(s)) |->
                                        frame[((k - 1) % Prod(s)) + 1]]]
                      ELSE [shape |-> s, data |-> frame],
         spacing |-> <<1, 1, 1>>,
         rois |-> [j \in 1..Len(roi_data) |->
                     [name |-> IF j = 1 THEN "roi_a.nii" ELSE "roi_b.nii",
                      roi_arr |-> [shape |-> s, data |-> roi_data[j]]]],
         have_skimage |-> TRUE]

\* ROI label data on 2x2x2: the first voxel, and no voxel
FirstVoxel == [k \in 1..8 |-> IF k = 1 THEN 1 ELSE 0]
NoVoxel == [k \in 1..8 |-> 0]

\* the cases of the configurations: a static case that succeeds, a static
\* case whose second ROI is empty, a temporal case of an empty ROI, a case
\* whose main image is missing, and an entry without the key "main"
BatchCases ==
    {Case(TRUE, BatchFiles(FALSE, <<FirstVoxel>>), FALSE, NoTr, FALSE),
     Case(TRUE, BatchFiles(FALSE, <<FirstVoxel, NoVoxel>>), FALSE, NoTr, FALSE),
     Case(TRUE, BatchFiles(TRUE, <<NoVoxel>>), TRUE, Tr(1), TRUE),
     Case(TRUE, NoFiles("FileNotFoundError"), FALSE, NoTr, FALSE),
     Case(FALSE, NoFiles("none"), FALSE, NoTr, FALSE)}

\* the call of lines 134-141: case["main"] raises KeyError before
\* process_single_case is entered
CaseOutcome(case) ==
    IF ~case.has_main THEN Raise("KeyError")
    ELSE process_single_case(case.files, case.temporal, case.tr,
                             case.motion_check)

\* TryCase writing the CSV before appending to results
TryCase_save_first(results, outcome, output_dir, save_raises) ==
    IF outcome.status = "raise"
    THEN [results |-> results, saved |-> FALSE, error |-> outcome.value]
    ELSE IF output_dir /\ save_raises
    THEN [results |-> results, saved |-> FALSE, error |-> "OSError"]
    ELSE [results |-> Append(results, outcome.value), saved |-> output_dir,
          error |-> "none"]

\* the try block of one case, given the outcome of its process_single_case
\* call and whether save_results raises: results.append(stats) comes before
\* save_results, and "except Exception" logs the error and continues
TryCase(results, outcome, output_dir, save_raises) ==
    IF outcome.status = "raise"
    THEN [results |-> results, saved |-> FALSE, error |-> outcome.value]
    ELSE LET appended == Append(results, outcome.value)
         IN  IF output_dir /\ save_raises
             THEN [results |-> appended, saved |-> FALSE, error |-> "OSError"]
             ELSE [results |-> appended, saved |-> output_dir,
                   error |-> "none"]

\* process_batch is entered: load_config may raise, which ends the call
StartBatch ==
    /\ pc = "idle"
    /\ \E n \in 0..MaxCases, output_dir \in BOOLEAN, config_ok \in BOOLEAN :
         \E cases \in [1..n -> BatchCases] :
            /\ call' = [op |-> "process_batch", cases |-> cases,
                        output_dir |-> output_dir, config_ok |-> config_ok,
                        i |-> 1, results |-> <<>>, announced |-> <<>>,
                        saved |-> <<>>, errors |-> <<>>]
            /\ IF config_ok
               THEN pc' = "batch" /\ result' = NoResult
               ELSE pc' = "done" /\ result' = Raise("FileNotFoundError")

\* one pass of "for i, case in enumerate(cases)"
BatchCase ==
    /\ pc = "batch"
    /\ call.i <= Len(call.cases)
    /\ \E save_raises \in BOOLEAN :
         \E outcome \in {CaseOutcome(call.cases[call.i])} :
            \E t \in {TryCase(call.results, outcome, call.output_dir,
                              save_raises)} :
               call' = [call EXCEPT
                          !.i = @ + 1,
                          !.announced = Append(@, call.i),
                          !.results = t.results,
                          !.saved = IF t.saved THEN Append(@, call.i) ELSE @,
                          !.errors = IF t.error # "none"
                                     THEN Append(@, call.i) ELSE @]
    /\ UNCHANGED <<pc, result>>

\* return results
FinishBatch ==
    /\ pc = "batch"
    /\ call.i > Len(call.cases)
    /\ result' = Ok(call.results)
    /\ pc' = "done"
    /\ UNCHANGED call

NextBatch ==
    \/ StartBatch
    \/ BatchCase
    \/ FinishBatch
    \/ Return

SpecBatch == Init /\ [][NextBatch]_vars

(***************************************************************************)
(* The temporal branch on its own (meteor/cli.py lines 74 and 78):         *)
(* extract_timeseries, then compute_temporal_features on the raw traces,   *)
(* next to compute_temporal_features on the mean curve of the bundle.      *)
(***************************************************************************)
\* the spatial shape of a 4D array whose time axis is temporal_axis
SpatialOf(shape, temporal_axis) ==
    IF temporal_axis = 0 THEN Tail(shape) ELSE SubSeq(shape, 1, 3)

\* the number of time points of a 4D array
TimeOf(shape, temporal_axis) ==
    IF temporal_axis = 0 THEN shape[1] ELSE shape[4]

\* 4D shapes: those of ImgShapes and one voxel over MaxElems time points
BundleShapes(axis) ==
    ImgShapes(axis)
    \cup {IF axis = 0 THEN <<MaxElems, 1, 1, 1>> ELSE <<1, 1, 1, MaxElems>>}

\* dark and bright voxels
TwoLevels == {R(0), R(MaxIntensity)}

FeaturesOfBundle(img_4d, roi_mask, temporal_axis, tr) ==
    LET ts_data == extract_timeseries(img_4d, roi_mask, temporal_axis)
    IN  IF ts_data.status = "raise" THEN ts_data
        ELSE Ok([bundle |-> ts_data.value,
                 from_traces |->
                     compute_temporal_features(ts_data.value.timeseries, tr),
                 from_mean_curve |->
                     compute_temporal_features(ts_data.value.mean_curve, tr)])

CallFeaturesOfBundle ==
    /\ pc = "idle"
    /\ \E axis \in {0, 0 - 1}, tr \in CaseTrVals :
         \E s \in BundleShapes(axis) :
            \E m \in MasksOfShape(SpatialOf(s, axis)),
               d \in SeqsOfLen(TwoLevels, Prod(s)) :
               LET img == [shape |-> s, data |-> d]
               IN  /\ call' = [op |-> "features_of_bundle", img_4d |-> img,
                               roi_mask |-> m, temporal_axis |-> axis,
                               tr |-> tr]
                   /\ result' = FeaturesOfBundle(img, m, axis, tr)
    /\ pc' = "done"

NextBundle ==
    \/ CallFeaturesOfBundle
    \/ Return

SpecBundle == Init /\ [][NextBundle]_vars

(***************************************************************************)
(* Properties of the Mask Geometry Engine.                                 *)
(***************************************************************************)
Done(op) == pc = "done" /\ call.op = op

\* the true voxels of a mask, as a set of index triples
TrueVoxels(m) == {c \in (0..(m.shape[1] - 1)) \X (0..(m.shape[2] - 1))
                          \X (0..(m.shape[3] - 1)) : m.data[Ravel(c, m.shape)]}

\* the union of two masks of one shape
MaskOr(m1, m2) ==
    [shape |-> m1.shape, data |-> [k \in 1..Size(m1) |-> m1.data[k] \/ m2.data[k]]]

\* C4: a geometry computation given a spacing with a component <= 0 fails
\* with an error and returns no numeric result.
C4_NonPositiveSpacingRaises ==
    (/\ pc = "done"
     /\ call.op \in {"compute_volume", "compute_surface_area", "hausdorff_distance"}
     /\ ~PositiveSpacing(call.spacing))
        => result.status = "raise"

\* C5: compute_volume returns exactly (number of true voxels) x spacing[0] x
\* spacing[1] x spacing[2]: 0 for a mask without true voxels, additive over
\* disjoint unions of masks, and 60 for the 3x4x5 block at unit spacing.
C5_VolumeExact ==
    Done("compute_volume") =>
        LET m == call.roi_mask
            sp == call.spacing
            n == Cardinality(TrueVoxels(m))
        IN  /\ result = Ok(R(n * sp[1] * sp[2] * sp[3]))
            /\ n = 0 => result.value = R(0)
            /\ m \in Masks =>
                 \A m2 \in MasksOfShape(m.shape) :
                    TrueVoxels(m) \cap TrueVoxels(m2) = {} =>
                       compute_volume(MaskOr(m, m2), sp).value
                          = RAdd(result.value, compute_volume(m2, sp).value)
            /\ (m = TestVolumeMask /\ sp = <<1, 1, 1>>) => result.value = R(60)

C5_Witness ==
    /\ Done("compute_volume")
    /\ call.roi_mask = TestVolumeMask
    /\ call.spacing = <<1, 2, 1>>
    /\ result.value = R(120)

\* C6: for same-shape masks A and B, dice_coefficient is 2|A and B|/(|A|+|B|)
\* when a mask has a true voxel and exactly 0.0 when both are empty; it is
\* 1.0 on (A, A) for non-empty A and 0.125 for the two 2x2x2 cubes that
\* overlap in one voxel.
C6_DiceFormula ==
    (Done("dice_coefficient") /\ call.mask1.shape = call.mask2.shape) =>
        LET A == TrueVoxels(call.mask1)
            B == TrueVoxels(call.mask2)
            v == result.value
        IN  /\ result.status = "ok"
            /\ IF A = {} /\ B = {} THEN v = R(0)
               ELSE /\ IsFinite(v)
                    /\ v[1] * (Cardinality(A) + Cardinality(B))
                         = 2 * Cardinality(A \cap B) * v[2]
            /\ (call.mask1 = call.mask2 /\ A # {}) => v = R(1)
            /\ (call.mask1 = TestCubeMask(1) /\ call.mask2 = TestCubeMask(2))
                  => v = Rat(1, 8)

C6_Witness ==
    /\ Done("dice_coefficient")
    /\ call.mask1 = TestCubeMask(1)
    /\ call.mask2 = TestCubeMask(2)
    /\ result = Ok(Rat(1, 8))

\* C7: hausdorff_distance is symmetric in its two masks for same-shape masks
\* and positive spacing, and is +infinity in both orders when a mask is empty.
C7_HausdorffSymmetric ==
    (/\ Done("hausdorff_distance")
     /\ call.mask1.shape = call.mask2.shape
     /\ PositiveSpacing(call.spacing)) =>
        /\ result = hausdorff_distance(call.mask2, call.mask1, call.spacing)
        /\ (TrueVoxels(call.mask1) = {} \/ TrueVoxels(call.mask2) = {})
              => result = Ok(Sqrt(PosInf))

\* two non-empty masks whose two directed distances differ
C7_Witness ==
    /\ Done("hausdorff_distance")
    /\ call.mask1.shape = call.mask2.shape
    /\ PositiveSpacing(call.spacing)
    /\ TrueVoxels(call.mask1) # {}
    /\ TrueVoxels(call.mask2) # {}
    /\ LET c1 == Scale(Argwhere(call.mask1), call.spacing)
           c2 == Scale(Argwhere(call.mask2), call.spacing)
       IN  DirectedSq(c1, c2) # DirectedSq(c2, c1)
    /\ result.status = "ok"

(***************************************************************************)
(* Properties of the operations that pair a mask with an array.            *)
(***************************************************************************)
\* the spatial shape of the 4D array of an extract_timeseries call
SpatialShape(c) ==
    IF c.temporal_axis = 0 THEN Tail(c.img_4d.shape)
    ELSE SubSeq(c.img_4d.shape, 1, 3)

\* C1: an engine operation given a mask whose shape differs from the spatial
\* shape of the array (or mask) it is paired with fails with an error, also
\* when the two have the same number of voxels.
C1_ShapeMismatchRaises ==
    /\ (Done("extract_timeseries") /\ call.roi_mask.shape # SpatialShape(call))
          => result.status = "raise"
    /\ ((Done("dice_coefficient") \/ Done("hausdorff_distance"))
           /\ call.mask1.shape # call.mask2.shape)
          => result.status = "raise"

(***************************************************************************)
(* Properties of the Temporal Feature Engine.                              *)
(***************************************************************************)
BasicKeys == {"temporal_mean", "temporal_std", "temporal_snr", "max_change",
              "peak_value", "time_to_peak"}
RateKeys == {"mean_rate", "max_rate", "min_rate"}
FrequencyKeys == {"peak_frequency", "power_0_01Hz", "power_0_1Hz"}

\* the number of time points of the array given to the call
TimePoints(c) == c.timeseries.shape[1]

\* the curve the features are taken of: the array itself, or the
\* across-voxel mean of a trace matrix
CurveOf(a) ==
    IF Len(a.shape) = 1 THEN a.data
    ELSE [t \in 1..a.shape[1] |->
            RDiv(RSum([j \in 1..a.shape[2] |-> a.data[(t - 1) * a.shape[2] + j]]),
                 R(a.shape[2]))]

\* C8: the frequency fields are returned exactly when tr is supplied and the
\* curve has more than 4 time points, the rate fields exactly when it has
\* more than 1, and the six basic fields for every length >= 1.  (tr, when
\* supplied, is a positive interval.)
C8_FeatureKeys ==
    (Done("compute_temporal_features")
       /\ (call.tr.given => RGt(call.tr.val, R(0)))) =>
        /\ result.status = "ok"
        /\ LET keys == DOMAIN result.value
               T == TimePoints(call)
           IN  /\ BasicKeys \subseteq keys
               /\ IF T > 1 THEN RateKeys \subseteq keys
                  ELSE RateKeys \cap keys = {}
               /\ IF call.tr.given /\ T > 4 THEN FrequencyKeys \subseteq keys
                  ELSE FrequencyKeys \cap keys = {}
               /\ keys \subseteq BasicKeys \cup RateKeys \cup FrequencyKeys

C8_Witness ==
    /\ Done("compute_temporal_features")
    /\ call.tr = Tr(2)
    /\ TimePoints(call) = 5
    /\ FrequencyKeys \subseteq DOMAIN result.value

IsFlat(curve) == \A i \in 1..Len(curve) : curve[i] = curve[1]

\* C9 as stated: temporal_snr is 0 whenever the standard deviation of the
\* curve is 0, and temporal_mean / temporal_std otherwise.
C9_SnrZeroIffStdZero ==
    (Done("compute_temporal_features") /\ result.status = "ok") =>
        LET f == result.value
        IN  IF f.temporal_std = Sqrt(R(0)) THEN f.temporal_snr = Zero
            ELSE f.temporal_snr = OverSqrt(f.temporal_mean, f.temporal_std.sqrt_of)

\* C9 as amended: temporal_snr is 0 whenever the standard deviation is not
\* greater than 0, which is for every flat curve and for every curve that
\* holds a NaN; it is temporal_mean / temporal_std otherwise.
C9_SnrGuard ==
    (Done("compute_temporal_features") /\ result.status = "ok") =>
        LET f == result.value
            curve == CurveOf(call.timeseries)
        IN  /\ IsFlat(curve) => f.temporal_snr = Zero
            /\ HasNaN(curve) => f.temporal_snr = Zero
            /\ f.temporal_std \in {Sqrt(R(0)), Sqrt(NaN)} => f.temporal_snr = Zero
            /\ (~IsFlat(curve) /\ ~HasNaN(curve)) =>
                  /\ RGt(f.temporal_std.sqrt_of, R(0))
                  /\ f.temporal_snr
                        = OverSqrt(f.temporal_mean, f.temporal_std.sqrt_of)

\* a flat curve of several time points and a non-zero constant
C9_Witness ==
    /\ Done("compute_temporal_features")
    /\ result.status = "ok"
    /\ TimePoints(call) >= 3
    /\ IsFlat(CurveOf(call.timeseries))
    /\ result.value.temporal_mean = R(2)
    /\ result.value.temporal_snr = Zero

\* the first differences of the across-voxel mean curve of the call
MeanCurveDiff(c) ==
    LET curve == CurveOf(c.timeseries)
    IN  [i \in 1..(Len(curve) - 1) |-> RSub(curve[i + 1], curve[i])]

\* the 0-based positions i of the difference series d with |z_i| > threshold,
\* z the z-score under the population standard deviation
ZExceeding(d, threshold) ==
    LET K == R(Len(d))
        mu == RDiv(RSum(d), K)
        dev == [j \in 1..Len(d) |-> RSub(d[j], mu)]
        var == RDiv(RSum([j \in 1..Len(d) |-> RMul(dev[j], dev[j])]), K)
        bound == RMul(RMul(threshold, threshold), var)
    IN  IF HasNaN(d) \/ ~RGt(var, R(0)) THEN {}
        ELSE {i \in 0..(Len(d) - 1) : RGt(RMul(dev[i + 1], dev[i + 1]), bound)}

\* C10: detect_motion returns the strictly increasing list of exactly those
\* 0-based positions i (0 <= i <= T-2) of the first-difference series whose
\* z-score has |z_i| > threshold, leaves its input unchanged, and returns the
\* empty list when the across-voxel mean curve is constant (so for T = 1 and
\* T = 2 as well).
C10_MotionFrames ==
    Done("detect_motion") =>
        LET T == TimePoints(call)
            d == MeanCurveDiff(call)
            frames == result.value
        IN  /\ result.status = "ok"
            /\ \A k \in 1..Len(frames) : frames[k] \in 0..(T - 2)
            /\ \A k \in 1..(Len(frames) - 1) : frames[k] < frames[k + 1]
            /\ {frames[k] : k \in 1..Len(frames)} = ZExceeding(d, call.threshold)
            /\ call.arg_after = call.timeseries
            /\ IsFlat(CurveOf(call.timeseries)) => frames = <<>>
            /\ T <= 2 => frames = <<>>

\* a jump in the last frame of a 7-point curve, flagged at the default
\* threshold 2.0
C10_Witness ==
    /\ Done("detect_motion")
    /\ TimePoints(call) = 7
    /\ call.threshold = R(2)
    /\ result = Ok(<<5>>)

(***************************************************************************)
(* Properties of the Intensity Statistics Engine.                          *)
(***************************************************************************)
\* C3: compute_entropy is >= 0 for every non-empty sample and every bin
\* count >= 2, and 0 for a sample whose values are all equal.
C3_EntropyNonNegative ==
    (Done("compute_entropy") /\ Len(call.data) > 0 /\ call.nbins >= 2) =>
        /\ EntropySign(result.value) >= 0
        /\ IsFlat(call.data) => EntropySign(result.value) = 0

(***************************************************************************)
(* Properties of the case adapter.                                         *)
(***************************************************************************)
\* the spatial shape of the main array
SpatialDims(main_arr) ==
    IF Len(main_arr.shape) = 4 THEN Tail(main_arr.shape) ELSE main_arr.shape

NoTrueVoxel(roi) == \A k \in 1..Len(roi.roi_arr.data) : roi.roi_arr.data[k] <= 0

\* the static record of an empty ROI: NaN statistics and volume 0.0
StaticSentinels(stats) ==
    /\ \A key \in {"min", "max", "mean", "median", "p25", "p75"} :
         IsNaN(stats[key])
    /\ stats.std = Sqrt(NaN)
    /\ stats.skew = NaNSkew /\ stats.kurtosis = NaNKurtosis
    /\ stats.entropy = NaNEntropy
    /\ stats.volume_mm3 = R(0)

\* C2: a case whose files validate, whose volume has at least two voxels
\* along every axis, whose sampling interval is absent or positive and whose
\* ROI masks have no true voxel is processed without an error: the static
\* path returns for every ROI a record of NaN statistics and volume 0.0, the
\* temporal path a record for every ROI and an empty motion list.
C2_EmptyRoiNeverRaises ==
    (/\ Done("process_single_case")
     /\ call.files.path_error = "none"
     /\ \A i \in 1..3 : SpatialDims(call.files.main_arr)[i] >= 2
     /\ call.tr.given => RGt(call.tr.val, R(0))
     /\ Len(call.files.rois) >= 1
     /\ \A i \in 1..Len(call.files.rois) : NoTrueVoxel(call.files.rois[i]))
    => /\ result.status = "ok"
       /\ DOMAIN result.value = {call.files.rois[i].name :
                                   i \in 1..Len(call.files.rois)}
       /\ IF call.temporal /\ Len(call.files.main_arr.shape) = 4
          THEN /\ \A n \in DOMAIN result.value :
                    DOMAIN result.value[n] =
                        {"temporal_features", "mean_curve", "std_curve"}
               /\ \A j \in 1..Len(result.motion_log) :
                    result.motion_log[j] = <<>>
          ELSE \A n \in DOMAIN result.value : StaticSentinels(result.value[n])

\* the keys of a static record other than surface_area_mm2
StaticKeys ==
    {"min", "max", "mean", "median", "std", "skew", "kurtosis", "p25", "p75",
     "entropy", "volume_mm3"}

\* the case took the static branch of the ROI loop
StaticCase ==
    /\ Done("process_single_case")
    /\ call.files.path_error = "none"
    /\ ~(call.temporal /\ Len(call.files.main_arr.shape) = 4)

\* what compute_surface_area returns for the i-th ROI of the case
SurfaceAreaOf(i) ==
    compute_surface_area(BinMask(call.files.rois[i].roi_arr),
                         get_spacing_for_numpy(call.files.spacing),
                         call.files.have_skimage)

\* the pass whose record all_stats keeps under the name of the i-th ROI
KeptPass(i) ==
    \A j \in (i + 1)..Len(call.files.rois) :
        call.files.rois[j].name # call.files.rois[i].name

\* C11: without the isosurface library compute_surface_area returns None
\* without raising and the static path returns for every ROI the eleven other
\* statistics with surface_area_mm2 omitted; in every static result
\* surface_area_mm2 is present exactly when compute_surface_area returned a
\* number.
C11_SurfaceAreaOptional ==
    StaticCase =>
      /\ ~call.files.have_skimage =>
            /\ \A i \in 1..Len(call.files.rois) : SurfaceAreaOf(i) = Ok(None)
            /\ result.status = "ok"
            /\ DOMAIN result.value = {call.files.rois[i].name :
                                        i \in 1..Len(call.files.rois)}
            /\ \A n \in DOMAIN result.value :
                  DOMAIN result.value[n] = StaticKeys
      /\ result.status = "ok" =>
            \A i \in 1..Len(call.files.rois) :
               KeptPass(i) =>
                 LET rec == result.value[call.files.rois[i].name]
                 IN  /\ StaticKeys \subseteq DOMAIN rec
                     /\ "surface_area_mm2" \in DOMAIN rec
                          <=> /\ SurfaceAreaOf(i).status = "ok"
                              /\ ~IsNone(SurfaceAreaOf(i).value)

\* a static case of two ROIs of different names without the library
C11_Witness ==
    /\ StaticCase
    /\ result.status = "ok"
    /\ Len(call.files.rois) = 2
    /\ call.files.rois[1].name # call.files.rois[2].name
    /\ ~call.files.have_skimage
    /\ \A n \in DOMAIN result.value : DOMAIN result.value[n] = StaticKeys

(***************************************************************************)
(* Properties of the Intensity Statistics Engine.                          *)
(***************************************************************************)
BasicStatKeys == {"min", "max", "mean", "median", "std"}
AdditionalStatKeys == {"skew", "kurtosis", "p25", "p75"}

\* C12: on an empty sample compute_basic_stats returns NaN for min, max,
\* mean, median and std, compute_additional_stats NaN for skew, kurtosis, p25
\* and p75, and compute_entropy NaN; none raises, and each mapping has the
\* key set it has for a non-empty sample.
C12_EmptySampleNaN ==
    /\ Done("compute_basic_stats") =>
          /\ result.status = "ok"
          /\ DOMAIN result.value = BasicStatKeys
          /\ Len(call.data) = 0 =>
                /\ \A key \in {"min", "max", "mean", "median"} :
                      IsNaN(result.value[key])
                /\ IsNaN(result.value.std.sqrt_of)
    /\ Done("compute_additional_stats") =>
          /\ result.status = "ok"
          /\ DOMAIN result.value = AdditionalStatKeys
          /\ Len(call.data) = 0 =>
                /\ IsNaN(result.value.skew.m3) /\ IsNaN(result.value.skew.m2)
                /\ IsNaN(result.value.kurtosis.m4)
                /\ IsNaN(result.value.kurtosis.m2)
                /\ IsNaN(result.value.p25) /\ IsNaN(result.value.p75)
    /\ Done("compute_entropy") =>
          /\ result.status = "ok"
          /\ Len(call.data) = 0 => result.value = NaNEntropy

\* compute_basic_stats has returned for the empty sample
C12_Witness ==
    /\ Done("compute_basic_stats")
    /\ Len(call.data) = 0
    /\ result.status = "ok"
    /\ IsNaN(result.value.mean)

\* a <= b on floats: false when either is NaN
RLe(a, b) == RLt(a, b) \/ (IsFinite(a) /\ a = b)

\* C13: for a non-empty sample compute_basic_stats returns
\* min <= median <= max, and for [1, 2, 3, 4, 5] min 1, max 5, mean 3,
\* median 3.
C13_MedianBetweenMinMax ==
    (Done("compute_basic_stats") /\ Len(call.data) > 0) =>
       /\ result.status = "ok"
       /\ RLe(result.value.min, result.value.median)
       /\ RLe(result.value.median, result.value.max)
       /\ call.data = TestSample =>
             /\ result.value.min = R(1) /\ result.value.max = R(5)
             /\ result.value.mean = R(3) /\ result.value.median = R(3)

\* compute_basic_stats has returned for an even-length sample whose median
\* lies strictly between its minimum and its maximum
C13_Witness ==
    /\ Done("compute_basic_stats")
    /\ Len(call.data) = 2
    /\ result.status = "ok"
    /\ RLt(result.value.min, result.value.median)
    /\ RLt(result.value.median, result.value.max)

(***************************************************************************)
(* Properties of the batch adapter.                                        *)
(***************************************************************************)
\* the cases among the first k whose process_single_case call returned
Succeeded(cases, k) == {j \in 1..k : CaseOutcome(cases[j]).status = "ok"}

\* their results, in case order
ResultsOfFirst(cases, k) ==
    [m \in 1..Cardinality(Succeeded(cases, k)) |->
       CaseOutcome(cases[KthSmallest(Succeeded(cases, k), m)]).value]

\* C14: process_batch takes the cases one at a time in configuration order;
\* a failure while processing or saving a case does not stop the batch; the
\* results list holds, in case order, exactly the results of the cases whose
\* process_single_case call returned, never more entries than cases, and the
\* batch returns it once every case has been taken.
C14_BatchIsolatesFailures ==
    (call.op = "process_batch" /\ call.config_ok) =>
       /\ call.announced = [j \in 1..(call.i - 1) |-> j]
       /\ call.i <= Len(call.cases) + 1
       /\ call.results = ResultsOfFirst(call.cases, call.i - 1)
       /\ Len(call.results) <= Len(call.cases)
       /\ pc = "done" =>
            /\ call.i = Len(call.cases) + 1
            /\ result = Ok(ResultsOfFirst(call.cases, Len(call.cases)))

\* a batch has returned whose first case failed in an ROI, whose second case
\* succeeded and could not be saved
C14_Witness ==
    /\ Done("process_batch")
    /\ call.config_ok
    /\ Len(call.cases) = 2
    /\ CaseOutcome(call.cases[1]) = Raise("ValueError")
    /\ call.errors = <<1, 2>>
    /\ result.status = "ok"
    /\ Len(result.value) = 1

(***************************************************************************)
(* Properties of the time-series bundle.                                   *)
(***************************************************************************)
\* C15: for a 4D array of T time points and a matching mask of n true
\* voxels, extract_timeseries returns a trace matrix of T rows and n columns
\* and mean and std curves of length T, and compute_temporal_features gives
\* the same outcome on the trace matrix as on the mean curve, for the same
\* sampling interval.
C15_TracesReduceToMeanCurve ==
    Done("features_of_bundle") =>
       LET T == TimeOf(call.img_4d.shape, call.temporal_axis)
           n == CountTrue(call.roi_mask.data)
       IN  /\ result.status = "ok"
           /\ result.value.bundle.timeseries.shape = <<T, n>>
           /\ Len(result.value.bundle.timeseries.data) = T * n
           /\ result.value.bundle.mean_curve.shape = <<T>>
           /\ Len(result.value.bundle.mean_curve.data) = T
           /\ result.value.bundle.std_curve.shape = <<T>>
           /\ Len(result.value.bundle.std_curve.data) = T
           /\ result.value.from_traces = result.value.from_mean_curve

\* one voxel over more than four time points with a sampling interval, where
\* the frequency features are computed
C15_Witness ==
    /\ Done("features_of_bundle")
    /\ TimeOf(call.img_4d.shape, call.temporal_axis) > 4
    /\ CountTrue(call.roi_mask.data) = 1
    /\ call.tr = Tr(MaxTr)
    /\ result.status = "ok"
    /\ result.value.from_traces.status = "ok"
    /\ "peak_frequency" \in DOMAIN result.value.from_traces.value
    /\ result.value.from_traces.value.peak_value = R(MaxIntensity)

====
